---------------------------- MODULE Spec2Model ----------------------------
(***************************************************************************)
(* StimVision: the aggregation-and-ranking pipeline of                     *)
(* dbs_analysis_library/analysis.py and the batch loop of                  *)
(* run_ismr_analyzer.py that drives it.                                    *)
(*                                                                         *)
(* Numbers are exact rationals [nan, n, d] (d > 0, lowest terms) plus NaN. *)
(* The one irrational operation, the square root inside DataFrame.std, is  *)
(* rounded down to a multiple of 1/SqrtScale, as a float square root is    *)
(* rounded to its precision; every other operation is exact.               *)
(***************************************************************************)
EXTENDS Integers, Sequences, FiniteSets, TLC

\* ------------------------------------------------------------------ bounds
MaxTrials == 2
NumPatients == 2
SqrtScale == 100

\* -------------------------------------------------------------- arithmetic
Abs(x) == IF x < 0 THEN -x ELSE x

RECURSIVE GCD(_, _)
GCD(a, b) == IF b = 0 THEN a ELSE GCD(b, a % b)

NaN == [nan |-> TRUE, n |-> 0, d |-> 1]

Rat(n, d) ==
    LET g == GCD(Abs(n), Abs(d))
        s == IF d < 0 THEN -1 ELSE 1
    IN  [nan |-> FALSE, n |-> (s * n) \div g, d |-> (s * d) \div g]

Zero == Rat(0, 1)
One == Rat(1, 1)

IsNaN(x) == x.nan

Neg(x) == IF x.nan THEN NaN ELSE [nan |-> FALSE, n |-> -x.n, d |-> x.d]

Add(x, y) ==
    IF x.nan \/ y.nan THEN NaN
    ELSE LET g == GCD(x.d, y.d)
         IN  Rat(x.n * (y.d \div g) + y.n * (x.d \div g), (x.d \div g) * y.d)

Sub(x, y) == Add(x, Neg(y))

Mul(x, y) ==
    IF x.nan \/ y.nan THEN NaN
    ELSE LET g1 == GCD(Abs(x.n), y.d)
             g2 == GCD(Abs(y.n), x.d)
         IN  Rat((x.n \div g1) * (y.n \div g2), (x.d \div g2) * (y.d \div g1))

\* x / y for y # 0
Div(x, y) ==
    IF x.nan \/ y.nan THEN NaN
    ELSE Mul(x, Rat(y.d, y.n))

\* a/b < c/d for a, c >= 0 and b, d > 0, by continued fractions (no products)
RECURSIVE LessPos(_, _, _, _)
LessPos(a, b, c, d) ==
    LET q1 == a \div b
        q2 == c \div d
        r1 == a % b
        r2 == c % d
    IN  IF q1 # q2 THEN q1 < q2
        ELSE IF r2 = 0 THEN FALSE
        ELSE IF r1 = 0 THEN TRUE
        ELSE LessPos(d, r2, b, r1)

\* IEEE comparison: every comparison with NaN is false
Lt(x, y) ==
    /\ ~x.nan
    /\ ~y.nan
    /\ IF x.n < 0 /\ y.n >= 0 THEN TRUE
       ELSE IF x.n >= 0 /\ y.n < 0 THEN FALSE
       ELSE IF x.n >= 0 THEN LessPos(x.n, x.d, y.n, y.d)
       ELSE LessPos(-y.n, y.d, -x.n, x.d)

Gt(x, y) == Lt(y, x)
Ge(x, y) == ~x.nan /\ ~y.nan /\ ~Lt(x, y)
Le(x, y) == Ge(y, x)

RECURSIVE ISqrtIn(_, _, _)
ISqrtIn(v, lo, hi) ==
    IF lo >= hi THEN lo
    ELSE LET mid == (lo + hi + 1) \div 2
         IN  IF mid * mid <= v THEN ISqrtIn(v, mid, hi) ELSE ISqrtIn(v, lo, mid - 1)

\* numpy sqrt of a non-negative number, rounded down to 1/SqrtScale. The inputs
\* below keep every non-zero standard deviation above 1/SqrtScale, so rounding
\* never turns a responsive parameter into an unresponsive one.
Sqrt(x) ==
    IF x.nan THEN NaN
    ELSE LET v == (x.n * SqrtScale * SqrtScale) \div x.d
         IN  Rat(ISqrtIn(v, 0, 40000), SqrtScale)

RECURSIVE SumSeq(_)
SumSeq(s) == IF s = <<>> THEN Zero ELSE Add(Head(s), SumSeq(Tail(s)))

Range(s) == {s[i] : i \in 1..Len(s)}

RECURSIVE SetToSeq(_)
SetToSeq(S) ==
    IF S = {} THEN <<>>
    ELSE LET x == CHOOSE y \in S : TRUE IN <<x>> \o SetToSeq(S \ {x})

\* sum of a series (a function from labels to numbers)
SumOf(f) == SumSeq([i \in 1..Cardinality(DOMAIN f) |-> f[SetToSeq(DOMAIN f)[i]]])


\* ------------------------------------------------- utils.py: configuration
\* parameter_directions, as written in utils.py
parameter_directions ==
    [MeanAmplitude |-> "higher", StdAmplitude |-> "lower",
     MeanSpeed |-> "higher", StdSpeed |-> "lower",
     MeanRMSVelocity |-> "higher", StdRMSVelocity |-> "lower",
     MeanOpeningSpeed |-> "higher", StdOpeningSpeed |-> "lower",
     MeanClosingSpeed |-> "higher", StdClosingSpeed |-> "lower",
     MeanCycleDuration |-> "lower", StdCycleDuration |-> "lower",
     RangeCycleDuration |-> "lower", Frequency |-> "higher",
     AmplitudeDecay |-> "lower", VelocityDecay |-> "lower",
     RateDecay |-> "lower", CVAmplitude |-> "lower",
     CVCycleDuration |-> "lower", CVSpeed |-> "lower",
     CVRMSVelocity |-> "lower", CVOpeningSpeed |-> "lower",
     CVClosingSpeed |-> "lower"]

\* DEFAULT_LAMBDA = 0.1
DEFAULT_LAMBDA == Rat(1, 10)

\* the threshold 1e-9 of the responsiveness filter
EpsilonDen == 1000000000
Epsilon == Rat(1, EpsilonDen)

\* ------------------------------------------- processing.py: condition names
\* What the searches of sort_condition_key find in the lower-cased name:
\* the substring "dbs off", the number after "pr" or "level" (-1: no match),
\* the substring "dbs on", the substring "med on".
CondTokens ==
    [c \in {"Med Off - DBS Off", "Med On - DBS Off", "Med Off - DBS On - Level 0",
            "Med Off - DBS On - Pr1", "Med Off - DBS On - Pr2",
            "Med Off - DBS On - Pr150", "Med Off - DBS On", "Med On", "Sham",
            "A", "B"} |->
        [dbs_off |-> c \in {"Med Off - DBS Off", "Med On - DBS Off"},
         num |-> CASE c = "Med Off - DBS On - Level 0" -> 0
                   [] c = "Med Off - DBS On - Pr1" -> 1
                   [] c = "Med Off - DBS On - Pr2" -> 2
                   [] c = "Med Off - DBS On - Pr150" -> 150
                   [] OTHER -> -1,
         dbs_on |-> c \in {"Med Off - DBS On - Level 0", "Med Off - DBS On - Pr1",
                           "Med Off - DBS On - Pr2", "Med Off - DBS On - Pr150",
                           "Med Off - DBS On"},
         med_on |-> c \in {"Med On - DBS Off", "Med On"}]]

Conditions == DOMAIN CondTokens

sort_condition_key(condition) ==
    LET t == CondTokens[condition]
    IN  IF t.dbs_off THEN 0
        ELSE IF t.num # -1 THEN t.num
        ELSE IF t.dbs_on THEN 100
        ELSE IF t.med_on THEN 200
        ELSE 500

\* Python's sorted(seq, key=sort_condition_key): a stable sort
RECURSIVE InsertByKey(_, _)
InsertByKey(x, s) ==
    IF s = <<>> THEN <<x>>
    ELSE IF sort_condition_key(x) < sort_condition_key(Head(s)) THEN <<x>> \o s
    ELSE <<Head(s)>> \o InsertByKey(x, Tail(s))

RECURSIVE SortedByKey(_)
SortedByKey(s) ==
    IF s = <<>> THEN <<>>
    ELSE InsertByKey(s[Len(s)], SortedByKey(SubSeq(s, 1, Len(s) - 1)))

\* --------------------------------------------------------- Python values
\* A value is a record with a kind. A dict keeps its keys in insertion order.
NotADict == [kind |-> "other"]
None == [kind |-> "none"]
Dict(keys, val) == [kind |-> "dict", keys |-> keys, val |-> val]
List(elems) == [kind |-> "list", elems |-> elems]
\* a trial table: has_columns says whether 'Attribute' and 'Value' are columns;
\* values maps each Attribute to its raw Value
Frame(has_columns, values) == [kind |-> "frame", has_columns |-> has_columns, values |-> values]
Numeric(v) == [numeric |-> TRUE, v |-> v]
NonNumeric == [numeric |-> FALSE, v |-> 0]

\* pd.DataFrame(): rows (index, in order), columns, cells
EmptyFrame == [index |-> <<>>, columns |-> {}, cell |-> <<>>]
\* DataFrame.empty
IsEmpty(df) == df.index = <<>> \/ df.columns = {}
\* pd.Series(dtype=float), as a function from labels to numbers
EmptySeries == <<>>

\* --------------------------------------- analysis.py: aggregate_task_data_by_hand
\* pd.to_numeric(df['Value'], errors='coerce')
to_numeric(raw) == IF raw.numeric THEN Rat(raw.v, 1) ELSE NaN

\* lines 28-29: the trial's series, indexed by Attribute
TrialSeries(df) == [a \in DOMAIN df.values |-> to_numeric(df.values[a])]

\* line 27
IsUsableTrial(df) == df.kind = "frame" /\ df.has_columns

\* lines 25-30: series_list of one condition
RECURSIVE SeriesList(_)
SeriesList(trials) ==
    IF trials = <<>> THEN <<>>
    ELSE IF IsUsableTrial(Head(trials))
         THEN <<TrialSeries(Head(trials))>> \o SeriesList(Tail(trials))
         ELSE SeriesList(Tail(trials))

\* PresentValues with a missing or non-numeric value counted as 0: a faulty variant
RECURSIVE PresentValuesZeroFilled(_, _)
PresentValuesZeroFilled(series_list, a) ==
    IF series_list = <<>> THEN <<>>
    ELSE LET s == Head(series_list)
         IN  <<IF a \in DOMAIN s /\ ~IsNaN(s[a]) THEN s[a] ELSE Zero>>
                 \o PresentValuesZeroFilled(Tail(series_list), a)

\* the values a parameter has in the trials that supply a number for it
RECURSIVE PresentValues(_, _)
PresentValues(series_list, a) ==
    IF series_list = <<>> THEN <<>>
    ELSE LET s == Head(series_list)
         IN  IF a \in DOMAIN s /\ ~IsNaN(s[a])
             THEN <<s[a]>> \o PresentValues(Tail(series_list), a)
             ELSE PresentValues(Tail(series_list), a)

\* mean of a sequence of numbers, skipping none: NaN when it is empty
MeanSeq(vals) == IF vals = <<>> THEN NaN ELSE Div(SumSeq(vals), Rat(Len(vals), 1))

\* MeanAcrossTrials taking the value of the first trial that holds a number
\* instead of the mean: a faulty variant
FirstAcrossTrials(series_list) ==
    [a \in UNION {DOMAIN series_list[i] : i \in 1..Len(series_list)} |->
        IF PresentValues(series_list, a) = <<>> THEN NaN
        ELSE Head(PresentValues(series_list, a))]

\* line 33: pd.concat(series_list, axis=1).mean(axis=1)
MeanAcrossTrials(series_list) ==
    [a \in UNION {DOMAIN series_list[i] : i \in 1..Len(series_list)} |->
        MeanSeq(PresentValues(series_list, a))]

\* line 24
HasHand(hand_dict, hand) == hand_dict.kind = "dict" /\ hand \in Range(hand_dict.keys)

\* line 26: iterating a trial list that is None raises TypeError
AggregateRaises(data_for_task, hand) ==
    /\ data_for_task.kind = "dict"
    /\ \E c \in Range(data_for_task.keys) :
          /\ HasHand(data_for_task.val[c], hand)
          /\ data_for_task.val[c].val[hand].kind # "list"

\* lines 23-33: the conditions of aggregated_data, in insertion order
RECURSIVE AggregatedKeys(_, _, _)
AggregatedKeys(keys, val, hand) ==
    IF keys = <<>> THEN <<>>
    ELSE LET c == Head(keys)
             rest == AggregatedKeys(Tail(keys), val, hand)
         IN  IF HasHand(val[c], hand) /\ SeriesList(val[c].val[hand].elems) # <<>>
             THEN <<c>> \o rest
             ELSE rest

\* line 38: dropna(axis=0, how='all')
RECURSIVE DropAllNaNRows(_, _, _)
DropAllNaNRows(index, columns, cell) ==
    IF index = <<>> THEN <<>>
    ELSE LET c == Head(index)
             rest == DropAllNaNRows(Tail(index), columns, cell)
         IN  IF \A p \in columns : IsNaN(cell[c][p]) THEN rest ELSE <<c>> \o rest

\* TrialAfterRead with df['Value'] overwritten by its coerced values
\* (df['Value'] = pd.to_numeric(...)): a faulty variant
TrialCoercedInPlace(df) ==
    [df EXCEPT !.values =
        [a \in DOMAIN df.values |->
            IF df.values[a].numeric THEN df.values[a]
            ELSE [numeric |-> FALSE, v |-> 1]]]

\* lines 28-29: the table after its series was taken. pd.to_numeric returns a
\* new Series and s.index is assigned on that Series, so the table keeps its
\* raw values
TrialAfterRead(df) == df

\* lines 23-30: the caller's mapping after the loop has read it
DataAfterAggregate(data_for_task, hand) ==
    IF data_for_task.kind # "dict" THEN data_for_task
    ELSE [data_for_task EXCEPT !.val =
            [c \in DOMAIN data_for_task.val |->
                LET hand_dict == data_for_task.val[c]
                IN  IF HasHand(hand_dict, hand) /\ hand_dict.val[hand].kind = "list"
                    THEN [hand_dict EXCEPT !.val[hand] =
                            List([k \in 1..Len(hand_dict.val[hand].elems) |->
                                    LET df == hand_dict.val[hand].elems[k]
                                    IN  IF IsUsableTrial(df) THEN TrialAfterRead(df) ELSE df])]
                    ELSE hand_dict]]

\* lines 19-39, when no trial list raises
aggregate_task_data_by_hand(data_for_task, hand) ==
    IF data_for_task.kind # "dict" THEN EmptyFrame
    ELSE LET keys == AggregatedKeys(data_for_task.keys, data_for_task.val, hand)
             aggregated_data ==
                 [c \in Range(keys) |->
                     MeanAcrossTrials(SeriesList(data_for_task.val[c].val[hand].elems))]
             columns == UNION {DOMAIN aggregated_data[c] : c \in Range(keys)}
             cell == [c \in Range(keys) |->
                         [p \in columns |->
                             IF p \in DOMAIN aggregated_data[c]
                             THEN aggregated_data[c][p] ELSE NaN]]
             index == DropAllNaNRows(SortedByKey(keys), columns, cell)
         IN  IF keys = <<>> THEN EmptyFrame
             ELSE [index |-> index, columns |-> columns,
                   cell |-> [c \in Range(index) |-> cell[c]]]

\* ---------------------------------- analysis.py: perform_full_hand_analysis
\* lines 59-64
InitialResults(summary_df) ==
    [summary_df |-> summary_df,
     improvement_df |-> EmptyFrame,
     responsiveness_scores |-> EmptySeries,
     final_dynamic_weights |-> EmptySeries,
     dynamic_scores |-> [index |-> <<>>, val |-> <<>>],
     dynamic_ranking_results |-> [ranked_names |-> <<>>, ranked_scores |-> <<>>]]

\* SummaryUnusable without the baseline test: a faulty variant
SummaryUnusableNoBaselineTest(summary_df, base) == IsEmpty(summary_df)

\* line 66
SummaryUnusable(summary_df, base) ==
    IsEmpty(summary_df) \/ base \notin Range(summary_df.index)

RECURSIVE DropLabel(_, _)
DropLabel(index, label) ==
    IF index = <<>> THEN <<>>
    ELSE IF Head(index) = label THEN DropLabel(Tail(index), label)
    ELSE <<Head(index)>> \o DropLabel(Tail(index), label)

\* line 70: summary_df.index.drop(baseline, errors='ignore')
OnConditions(summary_df, base) == DropLabel(summary_df.index, base)

\* line 75: summary_df.loc[baseline] raises KeyError when the label is absent
LocRaises(summary_df, base) == base \notin Range(summary_df.index)

\* DirectionSign flipping the 'higher' columns instead: a faulty variant
DirectionSignFlipsHigher(param) ==
    IF param \in DOMAIN parameter_directions /\ parameter_directions[param] = "higher"
    THEN Rat(-1, 1) ELSE One

\* lines 79-81: the sign a column of raw changes is multiplied by
DirectionSign(param) ==
    IF param \in DOMAIN parameter_directions /\ parameter_directions[param] = "lower"
    THEN Rat(-1, 1) ELSE One

\* ImprovementFrame without the sign flip of lines 79-81: a faulty variant
ImprovementFrameUncorrected(summary_df, on_conditions, base) ==
    [index |-> on_conditions,
     columns |-> summary_df.columns,
     cell |-> [c \in Range(on_conditions) |->
                 [p \in summary_df.columns |->
                     Sub(summary_df.cell[c][p], summary_df.cell[base][p])]]]

\* lines 75-82
ImprovementFrame(summary_df, on_conditions, base) ==
    LET baseline_series == summary_df.cell[base]
    IN  [index |-> on_conditions,
         columns |-> summary_df.columns,
         cell |-> [c \in Range(on_conditions) |->
                     [p \in summary_df.columns |->
                         Mul(Sub(summary_df.cell[c][p], baseline_series[p]),
                             DirectionSign(p))]]]

\* the defined cells of one column, in row order
RECURSIVE ColumnValues(_, _, _)
ColumnValues(index, cell, p) ==
    IF index = <<>> THEN <<>>
    ELSE IF IsNaN(cell[Head(index)][p]) THEN ColumnValues(Tail(index), cell, p)
    ELSE <<cell[Head(index)][p]>> \o ColumnValues(Tail(index), cell, p)

\* Series.std(): sample standard deviation (ddof = 1) of the defined values,
\* NaN when fewer than two are defined
Std(vals) ==
    IF Len(vals) < 2 THEN NaN
    ELSE LET mean == MeanSeq(vals)
             sq == [k \in 1..Len(vals) |-> Mul(Sub(vals[k], mean), Sub(vals[k], mean))]
         IN  Sqrt(Div(SumSeq(sq), Rat(Len(vals) - 1, 1)))

\* line 84: improvement_df.std().fillna(0)
StdFilled(improvement_df) ==
    [p \in improvement_df.columns |->
        LET s == Std(ColumnValues(improvement_df.index, improvement_df.cell, p))
        IN  IF IsNaN(s) THEN Zero ELSE s]

\* IsResponsive keeping the constant columns: a faulty variant
IsResponsiveKeepsZero(score) == Ge(score, Zero)

\* line 85: the mask responsiveness_scores > 1e-9
IsResponsive(score) == Gt(score, Epsilon)

\* lines 84-85
Responsiveness(improvement_df) ==
    LET all == StdFilled(improvement_df)
    IN  [p \in {q \in improvement_df.columns : IsResponsive(all[q])} |-> all[p]]

\* line 88
NoResponsive(responsiveness_scores) ==
    DOMAIN responsiveness_scores = {} \/ SumOf(responsiveness_scores) = Zero

\* line 93
DataDrivenWeights(responsiveness_scores) ==
    LET total == SumOf(responsiveness_scores)
    IN  [p \in DOMAIN responsiveness_scores |-> Div(responsiveness_scores[p], total)]

\* UniformWeights with the count off by one: a faulty variant the weight claims reject
UniformWeightsOffByOne(data_driven_weights) ==
    [p \in DOMAIN data_driven_weights |->
        Rat(1, Cardinality(DOMAIN data_driven_weights) + 1)]

\* lines 94-95
UniformWeights(data_driven_weights) ==
    [p \in DOMAIN data_driven_weights |->
        Rat(1, Cardinality(DOMAIN data_driven_weights))]

\* BlendedWeights with the two coefficients swapped: a faulty variant
BlendedWeightsSwapped(data_driven_weights, uniform_weights, lam) ==
    [p \in DOMAIN data_driven_weights |->
        Add(Mul(lam, data_driven_weights[p]), Mul(Sub(One, lam), uniform_weights[p]))]

\* line 97
BlendedWeights(data_driven_weights, uniform_weights, lam) ==
    [p \in DOMAIN data_driven_weights |->
        Add(Mul(Sub(One, lam), data_driven_weights[p]), Mul(lam, uniform_weights[p]))]

\* lines 93-97
FinalWeights(responsiveness_scores, lam) ==
    LET data_driven_weights == DataDrivenWeights(responsiveness_scores)
    IN  BlendedWeights(data_driven_weights, UniformWeights(data_driven_weights), lam)

\* DynamicScores with undefined improvements skipped in the sum (as a nansum
\* would): a faulty variant
DynamicScoresSkippingNaN(improvement_df, final_dynamic_weights) ==
    LET common_params == improvement_df.columns \cap DOMAIN final_dynamic_weights
        ps == SetToSeq(common_params)
    IN  [index |-> improvement_df.index,
         val |-> [c \in Range(improvement_df.index) |->
                    SumSeq([k \in 1..Len(ps) |->
                        IF IsNaN(improvement_df.cell[c][ps[k]]) THEN Zero
                        ELSE Mul(improvement_df.cell[c][ps[k]],
                                 final_dynamic_weights[ps[k]])])]]

\* lines 101-102: improvement_df[common_params].dot(final_dynamic_weights[common_params])
DynamicScores(improvement_df, final_dynamic_weights) ==
    LET common_params == improvement_df.columns \cap DOMAIN final_dynamic_weights
        ps == SetToSeq(common_params)
    IN  [index |-> improvement_df.index,
         val |-> [c \in Range(improvement_df.index) |->
                    SumSeq([k \in 1..Len(ps) |->
                        Mul(improvement_df.cell[c][ps[k]], final_dynamic_weights[ps[k]])])]]

\* the orders of 1..n
Orders(n) == {q \in [1..n -> 1..n] : \A a, b \in 1..n : a # b => q[a] # q[b]}

\* sort_values with ascending=True: a faulty variant of SortValuesDescending
SortValuesAscending(scores) ==
    LET n == Len(scores.index)
        v(q, k) == scores.val[scores.index[q[k]]]
    IN  {q \in Orders(n) :
            \A k, l \in 1..n : k < l =>
                /\ ~(IsNaN(v(q, k)) /\ ~IsNaN(v(q, l)))
                /\ (IsNaN(v(q, k)) /\ IsNaN(v(q, l))) => q[k] < q[l]
                /\ (~IsNaN(v(q, k)) /\ ~IsNaN(v(q, l))) => ~Lt(v(q, l), v(q, k))}

\* line 106: dynamic_scores.sort_values(ascending=False) with the default
\* kind='quicksort', which is not a stable sort: defined scores come first in
\* descending order, equal scores in whichever order the sort leaves them;
\* NaN scores come last, in their original order (na_position='last').
SortValuesDescending(scores) ==
    LET n == Len(scores.index)
        v(q, k) == scores.val[scores.index[q[k]]]
    IN  {q \in Orders(n) :
            \A k, l \in 1..n : k < l =>
                /\ ~(IsNaN(v(q, k)) /\ ~IsNaN(v(q, l)))
                /\ (IsNaN(v(q, k)) /\ IsNaN(v(q, l))) => q[k] < q[l]
                /\ (~IsNaN(v(q, k)) /\ ~IsNaN(v(q, l))) => ~Lt(v(q, k), v(q, l))}

\* lines 107-110
RankingResults(scores, q) ==
    [ranked_names |-> [k \in 1..Len(scores.index) |-> scores.index[q[k]]],
     ranked_scores |-> [k \in 1..Len(scores.index) |-> scores.val[scores.index[q[k]]]]]

\* lines 41-112 as one function: the outcomes of a call, each the results dict
\* and the exception that propagated ("" when none); more than one outcome
\* only where the sort of line 106 may order tied scores either way
perform_full_hand_analysis(data, h, base, lam) ==
    IF AggregateRaises(data, h)
    THEN {[results |-> InitialResults(EmptyFrame), raised |-> "TypeError"]}
    ELSE
    LET summary_df == aggregate_task_data_by_hand(data, h)
        r0 == InitialResults(summary_df)
        on_conditions == OnConditions(summary_df, base)
        improvement_df == ImprovementFrame(summary_df, on_conditions, base)
        r1 == [r0 EXCEPT !.improvement_df = improvement_df]
        responsiveness_scores == Responsiveness(improvement_df)
        r2 == [r1 EXCEPT !.responsiveness_scores = responsiveness_scores]
        final_dynamic_weights == FinalWeights(responsiveness_scores, lam)
        dynamic_scores == DynamicScores(improvement_df, final_dynamic_weights)
        r3 == [r2 EXCEPT !.final_dynamic_weights = final_dynamic_weights,
                         !.dynamic_scores = dynamic_scores]
    IN  IF SummaryUnusable(summary_df, base) \/ on_conditions = <<>>
        THEN {[results |-> r0, raised |-> ""]}
        ELSE IF LocRaises(summary_df, base)
        THEN {[results |-> r0, raised |-> "KeyError"]}
        ELSE IF NoResponsive(responsiveness_scores)
        THEN {[results |-> r2, raised |-> ""]}
        ELSE {[results |-> [r3 EXCEPT !.dynamic_ranking_results =
                                RankingResults(dynamic_scores, q)],
               raised |-> ""] : q \in SortValuesDescending(dynamic_scores)}

\* ------------------------------------------------------------- the inputs
Hands == {"Left", "Right"}
Baseline0 == "Med Off - DBS Off"

SeqsOf(S, lo, hi) == UNION {[1..k -> S] : k \in lo..hi}

\* a trial table with the Attribute and Value columns and numeric values
NumericTrial(f) == Frame(TRUE, [a \in DOMAIN f |-> Numeric(f[a])])
\* {hand: trials}
OneHand(h, trials) == Dict(<<h>>, [x \in {h} |-> List(trials)])
\* {condition: {hand: [one trial]}} for the conditions of keys, rows[k] the trial of keys[k]
OneTrialEach(keys, rows, h) ==
    Dict(keys, [c \in Range(keys) |->
                  OneHand(h, <<NumericTrial(rows[CHOOSE k \in 1..Len(keys) : keys[k] = c])>>)])

\* shrinkage_lambda values in [0, 1]
Lambdas == {Zero, DEFAULT_LAMBDA, Rat(1, 2), One}

OnNames == <<"Med Off - DBS On - Pr1", "Med Off - DBS On - Pr2", "Med Off - DBS On">>

\* the trial rows of the numeric inputs: two known parameters, one of them
\* sometimes missing, and a parameter parameter_directions does not know
Rows ==
    [{"MeanSpeed", "StdSpeed"} -> {0, 1}]
        \cup {[MeanSpeed |-> 2, StdSpeed |-> 2], [MeanSpeed |-> 2], [StdSpeed |-> 0, Jitter |-> 2],
              [MeanSpeed |-> 0, Jitter |-> 1]}
BaselineRows == {[MeanSpeed |-> 1, StdSpeed |-> 1], [MeanSpeed |-> 1, StdSpeed |-> 1, Jitter |-> 0]}

NumericCalls ==
    {[data |-> OneTrialEach(<<Baseline0>> \o SubSeq(OnNames, 1, Len(rows)), <<b>> \o rows, "Right"),
      hand |-> "Right", baseline |-> Baseline0, lam |-> lam] :
        b \in BaselineRows, rows \in SeqsOf(Rows, 1, 3), lam \in {Zero, DEFAULT_LAMBDA, One}}

\* Scenario A and Scenario B of the testable properties
ScenarioA ==
    Dict(<<"Med Off - DBS On - Pr1", Baseline0>>,
         [c \in {"Med Off - DBS On - Pr1", Baseline0} |->
            IF c = Baseline0
            THEN OneHand("Right", <<NumericTrial([MeanSpeed |-> 8]), NumericTrial([MeanSpeed |-> 8])>>)
            ELSE OneHand("Right", <<NumericTrial([MeanSpeed |-> 10]), NumericTrial([MeanSpeed |-> 12])>>)])
ScenarioB ==
    OneTrialEach(<<Baseline0, "A", "B">>,
                 <<[StdSpeed |-> 5], [StdSpeed |-> 3], [StdSpeed |-> 6]>>, "Right")

ScenarioCalls ==
    {[data |-> d, hand |-> h, baseline |-> Baseline0, lam |-> lam] :
        d \in {ScenarioA, ScenarioB}, h \in Hands, lam \in Lambdas}

\* condition names of every class of sort_condition_key, in every insertion order
OrderNames ==
    {Baseline0, "Med On - DBS Off", "Med Off - DBS On - Level 0", "Med Off - DBS On - Pr1",
     "Med Off - DBS On - Pr2", "Med Off - DBS On - Pr150", "Med Off - DBS On", "Med On", "Sham"}
OrderCalls ==
    {[data |-> OneTrialEach(keys, [k \in 1..Len(keys) |-> [MeanSpeed |-> k]], "Right"),
      hand |-> "Right", baseline |-> Baseline0, lam |-> DEFAULT_LAMBDA] :
        keys \in {q \in SeqsOf(OrderNames, 1, 3) :
                    \A a, b \in 1..Len(q) : a # b => q[a] # q[b]}}

\* what a trial list may hold: usable tables, a table with a non-numeric value,
\* a table without the Attribute and Value columns, something that is no table
TrialElems ==
    {NumericTrial([MeanSpeed |-> 0]), NumericTrial([MeanSpeed |-> 3]),
     NumericTrial([StdSpeed |-> 1]),
     Frame(TRUE, [MeanSpeed |-> NonNumeric, StdSpeed |-> Numeric(2)]),
     Frame(FALSE, [MeanSpeed |-> Numeric(1)]),
     NotADict}
TrialCalls ==
    {[data |-> Dict(<<Baseline0, "Med Off - DBS On - Pr1", "Med Off - DBS On - Pr2">>,
                    [c \in {Baseline0, "Med Off - DBS On - Pr1", "Med Off - DBS On - Pr2"} |->
                        CASE c = Baseline0 ->
                               OneHand("Right", <<NumericTrial([MeanSpeed |-> 1, StdSpeed |-> 1])>>)
                          [] c = "Med Off - DBS On - Pr1" -> OneHand("Right", trials)
                          [] OTHER ->
                               OneHand("Right", <<NumericTrial([MeanSpeed |-> 0, StdSpeed |-> 0])>>)]),
      hand |-> "Right", baseline |-> Baseline0, lam |-> DEFAULT_LAMBDA] :
        trials \in SeqsOf(TrialElems, 0, MaxTrials)}

\* {hand: trials} for both hands
TwoHands(left, right) ==
    Dict(<<"Left", "Right">>, [h \in Hands |-> List(IF h = "Left" THEN left ELSE right)])

\* empty and malformed arguments of aggregate_task_data_by_hand
MalformedData ==
    {NotADict,
     Dict(<<>>, <<>>),
     Dict(<<Baseline0>>, [c \in {Baseline0} |-> NotADict]),
     Dict(<<Baseline0>>, [c \in {Baseline0} |-> OneHand("Right", <<>>)]),
     Dict(<<Baseline0>>, [c \in {Baseline0} |-> Dict(<<"Right">>, [h \in {"Right"} |-> None])]),
     Dict(<<Baseline0, "Med Off - DBS On - Pr1">>,
          [c \in {Baseline0, "Med Off - DBS On - Pr1"} |->
             IF c = Baseline0 THEN OneHand("Right", <<NumericTrial([MeanSpeed |-> 1])>>)
             ELSE Dict(<<"Left", "Right">>,
                       [h \in Hands |-> IF h = "Left" THEN None
                                        ELSE List(<<NumericTrial([MeanSpeed |-> 2])>>)])]),
     Dict(<<Baseline0>>,
          [c \in {Baseline0} |-> OneHand("Right", <<Frame(FALSE, [MeanSpeed |-> Numeric(1)]), NotADict>>)]),
     Dict(<<Baseline0>>,
          [c \in {Baseline0} |-> OneHand("Right", <<Frame(TRUE, [MeanSpeed |-> NonNumeric])>>)]),
     Dict(<<Baseline0, "Sham">>,
          [c \in {Baseline0, "Sham"} |->
             IF c = Baseline0 THEN OneHand("Right", <<NumericTrial([MeanSpeed |-> 1])>>)
             ELSE NotADict])}
MalformedCalls ==
    {[data |-> d, hand |-> h, baseline |-> Baseline0, lam |-> DEFAULT_LAMBDA] :
        d \in MalformedData, h \in Hands}

\* both hands measured, the two hands analysed independently, any baseline
HandData ==
    {Dict(<<"Med Off - DBS On - Pr2", Baseline0, "Med Off - DBS On - Pr1">>,
          [c \in {"Med Off - DBS On - Pr2", Baseline0, "Med Off - DBS On - Pr1"} |->
             CASE c = Baseline0 ->
                    TwoHands(<<NumericTrial([MeanSpeed |-> 1, StdSpeed |-> 2])>>,
                             <<NumericTrial([MeanSpeed |-> 2, StdSpeed |-> 1])>>)
               [] c = "Med Off - DBS On - Pr1" ->
                    TwoHands(<<NumericTrial([MeanSpeed |-> x, StdSpeed |-> 0])>>,
                             <<NumericTrial([MeanSpeed |-> 0, StdSpeed |-> x])>>)
               [] OTHER -> OneHand(h, <<NumericTrial([MeanSpeed |-> y, StdSpeed |-> 1])>>)]) :
        x \in {0, 3}, y \in {1, 3}, h \in Hands}
HandCalls ==
    {[data |-> d, hand |-> h, baseline |-> b, lam |-> lam] :
        d \in HandData, h \in Hands,
        b \in {Baseline0, "Med Off - DBS On - Pr1", "Sham"}, lam \in Lambdas}

\* the calls of perform_full_hand_analysis the core specification makes
Calls ==
    NumericCalls \cup ScenarioCalls \cup OrderCalls \cup TrialCalls
        \cup MalformedCalls \cup HandCalls

\* --------------------------------------------------------------- the state
VARIABLES
    pc,                 \* the statement about to run
    caller,             \* who called perform_full_hand_analysis: "core", "hand", "report"
    data_by_condition,  \* the nested mapping condition -> hand -> trial list
    hand,
    baseline,
    shrinkage_lambda,
    results,            \* the results dict of perform_full_hand_analysis
    raised,             \* the exception that propagated, "" when none
    directions,         \* the module-level dict parameter_directions of utils.py
    args,               \* main: the command-line arguments
    patient_ix,         \* main: the position in patient_folders
    outputs             \* main: the files written to the current patient_output_folder

vars == <<pc, caller, data_by_condition, hand, baseline, shrinkage_lambda, results,
          raised, directions, args, patient_ix, outputs>>

callVars == <<caller, data_by_condition, hand, baseline, shrinkage_lambda, directions>>
mainVars == <<args, patient_ix, outputs>>

NoResults == InitialResults(EmptyFrame)

\* lines 57-64: the summary is aggregated and the results dict is created
CallAggregate ==
    /\ pc = "aggregate"
    /\ IF AggregateRaises(data_by_condition, hand)
       THEN /\ raised' = "TypeError"
            /\ pc' = "raised"
            /\ UNCHANGED results
       ELSE /\ results' = InitialResults(aggregate_task_data_by_hand(data_by_condition, hand))
            /\ pc' = "check_summary"
            /\ UNCHANGED raised
    /\ data_by_condition' = DataAfterAggregate(data_by_condition, hand)
    /\ UNCHANGED <<caller, hand, baseline, shrinkage_lambda, directions, mainVars>>

\* lines 66-68
AbortNoSummary ==
    /\ pc = "check_summary"
    /\ SummaryUnusable(results.summary_df, baseline)
    /\ pc' = "return"
    /\ UNCHANGED <<results, raised, callVars, mainVars>>

\* lines 70-73
AbortNoOnConditions ==
    /\ pc = "check_summary"
    /\ ~SummaryUnusable(results.summary_df, baseline)
    /\ OnConditions(results.summary_df, baseline) = <<>>
    /\ pc' = "return"
    /\ UNCHANGED <<results, raised, callVars, mainVars>>

\* lines 75-82
ComputeImprovement ==
    /\ pc = "check_summary"
    /\ ~SummaryUnusable(results.summary_df, baseline)
    /\ OnConditions(results.summary_df, baseline) # <<>>
    /\ IF LocRaises(results.summary_df, baseline)
       THEN /\ raised' = "KeyError"
            /\ pc' = "raised"
            /\ UNCHANGED results
       ELSE /\ results' = [results EXCEPT !.improvement_df =
                    ImprovementFrame(results.summary_df,
                                     OnConditions(results.summary_df, baseline), baseline)]
            /\ pc' = "responsiveness"
            /\ UNCHANGED raised
    \* lines 79-81 iterate parameter_directions.items() and assign only to
    \* columns of improvement_df, a copy (line 78) of the frame of line 76
    /\ directions' = directions
    /\ UNCHANGED <<caller, data_by_condition, hand, baseline, shrinkage_lambda, mainVars>>

\* lines 84-86
ComputeResponsiveness ==
    /\ pc = "responsiveness"
    /\ results' = [results EXCEPT !.responsiveness_scores = Responsiveness(results.improvement_df)]
    /\ pc' = "check_responsive"
    /\ UNCHANGED <<raised, callVars, mainVars>>

\* lines 88-90
AbortNoResponsive ==
    /\ pc = "check_responsive"
    /\ NoResponsive(results.responsiveness_scores)
    /\ pc' = "return"
    /\ UNCHANGED <<results, raised, callVars, mainVars>>

\* lines 92-98
BlendWeights ==
    /\ pc = "check_responsive"
    /\ ~NoResponsive(results.responsiveness_scores)
    /\ results' = [results EXCEPT !.final_dynamic_weights =
                      FinalWeights(results.responsiveness_scores, shrinkage_lambda)]
    /\ pc' = "score"
    /\ UNCHANGED <<raised, callVars, mainVars>>

\* lines 100-103
ComputeScores ==
    /\ pc = "score"
    /\ results' = [results EXCEPT !.dynamic_scores =
                      DynamicScores(results.improvement_df, results.final_dynamic_weights)]
    /\ pc' = "rank"
    /\ UNCHANGED <<raised, callVars, mainVars>>

\* lines 105-110
RankConditions ==
    /\ pc = "rank"
    /\ \E q \in SortValuesDescending(results.dynamic_scores) :
          results' = [results EXCEPT !.dynamic_ranking_results =
                         RankingResults(results.dynamic_scores, q)]
    /\ pc' = "return"
    /\ UNCHANGED <<raised, callVars, mainVars>>

\* the return statements of lines 68, 73, 90 and 112
Return ==
    /\ pc = "return"
    /\ pc' = CASE caller = "core" -> "returned"
               [] caller = "hand" -> "export"
               [] OTHER -> "plot"
    /\ UNCHANGED <<results, raised, callVars, mainVars>>

Analysis ==
    \/ CallAggregate
    \/ AbortNoSummary
    \/ AbortNoOnConditions
    \/ ComputeImprovement
    \/ ComputeResponsiveness
    \/ AbortNoResponsive
    \/ BlendWeights
    \/ ComputeScores
    \/ RankConditions
    \/ Return

\* ------------------------------------------- the core, called on its own
InitCore ==
    /\ pc = "aggregate"
    /\ caller = "core"
    /\ \E call \in Calls :
          /\ data_by_condition = call.data
          /\ hand = call.hand
          /\ baseline = call.baseline
          /\ shrinkage_lambda = call.lam
    /\ results = NoResults
    /\ raised = ""
    /\ directions = parameter_directions
    /\ args = [baseline |-> "interactive", overwrite |-> FALSE]
    /\ patient_ix = 1
    /\ outputs = {}

NextCore == Analysis

SpecCore == InitCore /\ [][NextCore]_vars

\* ------------------------------------- visualization.py: the patient report
\* line 69 (and line 40): the first row whose name contains "dbs off"
RECURSIVE FirstDbsOff(_)
FirstDbsOff(index) ==
    IF index = <<>> THEN "" 
    ELSE IF CondTokens[Head(index)].dbs_off THEN Head(index)
    ELSE FirstDbsOff(Tail(index))

\* lines 65-77: the number of rows and of columns of final_df
DynamicViewShape(improvement_df, responsiveness_scores, ranked_conditions) ==
    LET sorted_params == DOMAIN responsiveness_scores
        baseline_name == FirstDbsOff(improvement_df.index)
    IN  IF baseline_name # ""
        THEN [rows |-> Len(DropLabel(ranked_conditions, baseline_name)) + 1,
              cols |-> Cardinality(sorted_params)]
        ELSE [rows |-> Len(ranked_conditions), cols |-> Cardinality(sorted_params)]

\* line 79: np.nanmax of a zero-size array raises ValueError
NanmaxRaises(shape) == shape.rows = 0 \/ shape.cols = 0

\* lines 101-105: whether drawing the two views raises
PlotRaises(plot_results) ==
    NanmaxRaises(DynamicViewShape(plot_results.improvement_df,
                                  plot_results.responsiveness_scores,
                                  plot_results.dynamic_ranking_results.ranked_names))

\* ------------------------------------------------ run_ismr_analyzer.py: main
\* what load_csv_files_by_hand returns for a patient folder: {} or conditions
\* mapped to the hands that have files, each with a non-empty list of tables
LoaderHands ==
    {[left |-> l, right |-> r] : l \in {0, 1, 2}, r \in {0, 1, 2}} \ {[left |-> 0, right |-> 0]}
LoaderHandDict(n, v) ==
    IF n.left = 0 THEN OneHand("Right", [k \in 1..n.right |-> NumericTrial([MeanSpeed |-> v + k])])
    ELSE IF n.right = 0 THEN OneHand("Left", [k \in 1..n.left |-> NumericTrial([MeanSpeed |-> v])])
    ELSE TwoHands([k \in 1..n.left |-> NumericTrial([MeanSpeed |-> v])],
                  [k \in 1..n.right |-> NumericTrial([MeanSpeed |-> v + k])])
LoaderKeys ==
    {<<Baseline0>>, <<Baseline0, "Med Off - DBS On - Pr1">>,
     <<"Med Off - DBS On - Pr2", Baseline0, "Med Off - DBS On - Pr1">>,
     <<"Med Off - DBS On - Pr1", "Med Off - DBS On">>}
LoaderOutputs ==
    {Dict(<<>>, <<>>)} \cup
    {Dict(keys, [c \in Range(keys) |->
                    IF c = Baseline0 THEN LoaderHandDict(nb, 1)
                    ELSE IF c = "Med Off - DBS On - Pr1" THEN LoaderHandDict(n1, 2)
                    ELSE LoaderHandDict([left |-> 1, right |-> 1], 0)]) :
        keys \in LoaderKeys, nb \in LoaderHands,
        n1 \in {[left |-> 1, right |-> 1], [left |-> 1, right |-> 0], [left |-> 0, right |-> 2]}}

PatientDone ==
    /\ patient_ix' = patient_ix + 1
    /\ pc' = "loop"

\* lines 120-130: the next patient folder; one whose output folder exists is
\* skipped unless --overwrite
NextPatient ==
    /\ pc = "loop"
    /\ patient_ix <= NumPatients
    /\ \E output_exists \in BOOLEAN :
          IF output_exists /\ ~args.overwrite
          THEN PatientDone
          ELSE pc' = "load" /\ UNCHANGED patient_ix
    /\ outputs' = {}
    /\ UNCHANGED <<results, raised, callVars, args>>

\* lines 132-136
LoadData ==
    /\ pc = "load"
    /\ \E loaded \in LoaderOutputs :
          /\ data_by_condition' = loaded
          /\ IF loaded.keys = <<>>
             THEN PatientDone
             ELSE pc' = "select_baseline" /\ UNCHANGED patient_ix
    /\ UNCHANGED <<caller, hand, baseline, shrinkage_lambda, results, raised, directions,
                   args, outputs>>

\* lines 138-151: the baseline the user picks (or 'skip'), or the --baseline
\* argument when the patient has it
SelectBaseline ==
    /\ pc = "select_baseline"
    /\ LET available_conditions == Range(data_by_condition.keys)
       IN  IF args.baseline = "interactive"
           THEN \E choice \in available_conditions \cup {"skip"} :
                   IF choice = "skip"
                   THEN PatientDone /\ UNCHANGED <<baseline, hand>>
                   ELSE /\ baseline' = choice
                        /\ hand' = "Left"
                        /\ pc' = "hand_loop"
                        /\ UNCHANGED patient_ix
           ELSE IF args.baseline \notin available_conditions
                THEN PatientDone /\ UNCHANGED <<baseline, hand>>
                ELSE /\ baseline' = args.baseline
                     /\ hand' = "Left"
                     /\ pc' = "hand_loop"
                     /\ UNCHANGED patient_ix
    /\ UNCHANGED <<caller, data_by_condition, shrinkage_lambda, results, raised, directions,
                   args, outputs>>

\* lines 154-155
CallHand ==
    /\ pc = "hand_loop"
    /\ caller' = "hand"
    /\ shrinkage_lambda' = DEFAULT_LAMBDA
    /\ pc' = "aggregate"
    /\ UNCHANGED <<data_by_condition, hand, baseline, results, raised, directions, mainVars>>

\* lines 157-169: the CSV files written for one hand
HandFiles(res, base, h) ==
    LET ranked_names == res.dynamic_ranking_results.ranked_names
        best_on_cond == IF ranked_names # <<>> THEN ranked_names[1] ELSE ""
    IN  (IF DOMAIN res.responsiveness_scores # {}
         THEN {<<"responsiveness_scores", h>>} ELSE {})
        \cup
        (IF /\ best_on_cond # ""
            /\ base \in Range(res.summary_df.index)
            /\ best_on_cond \in Range(res.summary_df.index)
         THEN {<<"optimal_effect_vs_baseline", h>>, <<"baseline_values", h>>} ELSE {})

\* lines 157-169, and the step of the hand loop
ExportHand ==
    /\ pc = "export"
    /\ outputs' = outputs \cup HandFiles(results, baseline, hand)
    /\ IF hand = "Left"
       THEN hand' = "Right" /\ pc' = "hand_loop"
       ELSE hand' = hand /\ pc' = "report"
    /\ UNCHANGED <<caller, data_by_condition, baseline, shrinkage_lambda, results, raised,
                   directions, args, patient_ix>>

\* line 171 and visualization.py lines 91-93
CallReport ==
    /\ pc = "report"
    /\ caller' = "report"
    /\ hand' = "Right"
    /\ shrinkage_lambda' = DEFAULT_LAMBDA
    /\ pc' = "aggregate"
    /\ UNCHANGED <<data_by_condition, baseline, results, raised, directions, mainVars>>

\* visualization.py lines 94-110 and line 173 of main
PlotReport ==
    /\ pc = "plot"
    /\ IF IsEmpty(results.improvement_df)
       THEN PatientDone /\ UNCHANGED <<raised, outputs>>
       ELSE IF PlotRaises(results)
            THEN /\ raised' = "ValueError"
                 /\ pc' = "raised"
                 /\ UNCHANGED <<patient_ix, outputs>>
            ELSE /\ outputs' = outputs \cup {<<"report", "engineering_vs_clinical">>}
                 /\ PatientDone
                 /\ UNCHANGED raised
    /\ UNCHANGED <<results, callVars, args>>

\* line 175
AnalysisComplete ==
    /\ pc = "loop"
    /\ patient_ix > NumPatients
    /\ pc' = "complete"
    /\ UNCHANGED <<results, raised, callVars, mainVars>>

Init ==
    /\ pc = "loop"
    /\ caller = "hand"
    /\ data_by_condition = Dict(<<>>, <<>>)
    /\ hand = "Left"
    /\ baseline = ""
    /\ shrinkage_lambda = DEFAULT_LAMBDA
    /\ results = NoResults
    /\ raised = ""
    /\ directions = parameter_directions
    /\ args \in [baseline : {"interactive", Baseline0, "Med On"}, overwrite : BOOLEAN]
    /\ patient_ix = 1
    /\ outputs = {}

Next ==
    \/ NextPatient
    \/ LoadData
    \/ SelectBaseline
    \/ CallHand
    \/ Analysis
    \/ ExportHand
    \/ CallReport
    \/ PlotReport
    \/ AnalysisComplete

Spec == Init /\ [][Next]_vars

\* ---------------------------------------------------------------- claims
Returned == pc \in {"return", "returned"}
SixFields ==
    {"summary_df", "improvement_df", "responsiveness_scores", "final_dynamic_weights",
     "dynamic_scores", "dynamic_ranking_results"}
Position(seq, x) == CHOOSE i \in 1..Len(seq) : seq[i] = x
RankedNames == results.dynamic_ranking_results.ranked_names
RankedScores == results.dynamic_ranking_results.ranked_scores

\* C1: for every shrinkage_lambda in [0, 1] and every non-empty set of surviving
\* parameters, final_dynamic_weights is keyed by exactly the surviving
\* parameters (each with responsiveness > 1e-9), every weight lies in [0, 1],
\* and the weights sum to 1.
C1_WeightsAreConvex ==
    (pc \in {"score", "rank", "return", "returned"} /\ DOMAIN results.responsiveness_scores # {}) =>
        LET w == results.final_dynamic_weights
        IN  /\ DOMAIN w = DOMAIN results.responsiveness_scores
            /\ \A p \in DOMAIN w :
                  /\ Gt(results.responsiveness_scores[p], Epsilon)
                  /\ Ge(w[p], Zero)
                  /\ Le(w[p], One)
            /\ SumOf(w) = One

C1_Witness ==
    /\ pc = "returned"
    /\ shrinkage_lambda = DEFAULT_LAMBDA
    /\ Cardinality(DOMAIN results.final_dynamic_weights) >= 2
    /\ \E p, q \in DOMAIN results.final_dynamic_weights :
          Lt(results.final_dynamic_weights[p], results.final_dynamic_weights[q])

\* C2: whenever two non-baseline conditions receive equal composite scores,
\* they appear in ranked_names in the same relative order as their rows in
\* summary_df.
C2_RankingIsStable ==
    Returned =>
        \A k, l \in 1..Len(RankedNames) :
            (k < l /\ RankedScores[k] = RankedScores[l] /\ ~IsNaN(RankedScores[k])) =>
                Position(results.summary_df.index, RankedNames[k])
                    < Position(results.summary_df.index, RankedNames[l])

\* C3: no abort of the core for one patient or hand raises out of the
\* per-patient body of the batch loop, so every later patient folder is still
\* processed.
C3_BatchNeverRaises == raised = "" /\ pc # "raised"

\* C4: on the data-absence paths (empty summary, baseline absent from the
\* summary, no non-baseline row) perform_full_hand_analysis does not raise and
\* returns all six fields, with improvement matrix, responsiveness, weights and
\* scores empty and ranked_names = ranked_scores = [].
DataAbsent ==
    \/ IsEmpty(results.summary_df)
    \/ baseline \notin Range(results.summary_df.index)
    \/ OnConditions(results.summary_df, baseline) = <<>>

C4_DataAbsenceReturnsEmptyShape ==
    /\ raised # "KeyError"
    /\ (pc \notin {"aggregate", "check_summary", "raised"} /\ DataAbsent) =>
          /\ Returned
          /\ DOMAIN results = SixFields
          /\ IsEmpty(results.improvement_df)
          /\ results.improvement_df.index = <<>>
          /\ DOMAIN results.responsiveness_scores = {}
          /\ DOMAIN results.final_dynamic_weights = {}
          /\ results.dynamic_scores.index = <<>>
          /\ RankedNames = <<>>
          /\ RankedScores = <<>>

C4_Witness ==
    /\ pc = "returned"
    /\ ~IsEmpty(results.summary_df)
    /\ baseline \notin Range(results.summary_df.index)

\* C5: the rows of the condition summary follow the domain ordering: baseline-like
\* ('DBS Off') conditions, then numbered programs in ascending program number,
\* then un-numbered 'DBS On' / 'Med On' conditions, then catch-all conditions.
ConditionClass(c) ==
    LET t == CondTokens[c]
    IN  IF t.dbs_off THEN 0
        ELSE IF t.num # -1 THEN 1
        ELSE IF t.dbs_on \/ t.med_on THEN 2
        ELSE 3

C5_SummaryFollowsDomainOrdering ==
    pc # "aggregate" =>
        LET index == results.summary_df.index
        IN  \A i, j \in 1..Len(index) :
                i < j =>
                    /\ ConditionClass(index[i]) <= ConditionClass(index[j])
                    /\ (ConditionClass(index[i]) = 1 /\ ConditionClass(index[j]) = 1) =>
                          CondTokens[index[i]].num <= CondTokens[index[j]].num

\* C6: aggregate_task_data_by_hand never raises on empty or malformed input
\* (a non-dict, a condition mapped to a non-dict, a hand mapped to an empty
\* list or to a null trial list, trial tables without the Attribute/Value
\* columns or with non-numeric values): it returns a table, which is empty when
\* no condition supplies a usable trial for the requested hand.
NoUsableTrial ==
    \/ data_by_condition.kind # "dict"
    \/ \A c \in Range(data_by_condition.keys) :
          \/ ~HasHand(data_by_condition.val[c], hand)
          \/ data_by_condition.val[c].val[hand].kind # "list"
          \/ \A k \in 1..Len(data_by_condition.val[c].val[hand].elems) :
                ~IsUsableTrial(data_by_condition.val[c].val[hand].elems[k])

C6_AggregateNeverRaises ==
    /\ raised # "TypeError"
    /\ (pc # "aggregate" /\ NoUsableTrial) => IsEmpty(results.summary_df)

\* C7: with k surviving parameters, shrinkage_lambda = 0 yields
\* weight(p) = responsiveness(p) / sum of responsiveness, and
\* shrinkage_lambda = 1 yields weight(p) = 1/k, for every surviving p.
C7_LambdaExtremes ==
    (pc \in {"score", "rank", "return", "returned"} /\ DOMAIN results.responsiveness_scores # {}) =>
        LET r == results.responsiveness_scores
            w == results.final_dynamic_weights
        IN  /\ shrinkage_lambda = Zero =>
                  \A p \in DOMAIN r : w[p] = Div(r[p], SumOf(r))
            /\ shrinkage_lambda = One =>
                  \A p \in DOMAIN r : w[p] = Rat(1, Cardinality(DOMAIN r))

C7_Witness ==
    /\ pc = "returned"
    /\ shrinkage_lambda = One
    /\ Cardinality(DOMAIN results.responsiveness_scores) >= 2
    /\ \E p, q \in DOMAIN results.responsiveness_scores :
          Lt(results.responsiveness_scores[p], results.responsiveness_scores[q])

\* C8: for every non-baseline condition c and parameter p with both summary
\* values defined, the improvement cell is baseline(p) - summary(c, p) when p is
\* 'lower' in parameter_directions, summary(c, p) - baseline(p) when p is
\* 'higher', and the raw delta summary(c, p) - baseline(p) when p is absent from
\* parameter_directions; the baseline is never a row of the improvement matrix.
C8_ImprovementIsDirectionCorrected ==
    ~IsEmpty(results.improvement_df) =>
        LET summary == results.summary_df
            improvement == results.improvement_df
        IN  /\ baseline \notin Range(improvement.index)
            /\ Range(improvement.index) = Range(summary.index) \ {baseline}
            /\ \A c \in Range(summary.index) \ {baseline} :
                  \A p \in summary.columns :
                      (~IsNaN(summary.cell[c][p]) /\ ~IsNaN(summary.cell[baseline][p])) =>
                          improvement.cell[c][p] =
                              IF p \in DOMAIN parameter_directions
                                 /\ parameter_directions[p] = "lower"
                              THEN Sub(summary.cell[baseline][p], summary.cell[c][p])
                              ELSE Sub(summary.cell[c][p], summary.cell[baseline][p])

C8_Witness ==
    /\ pc = "returned"
    /\ \E c \in Range(results.improvement_df.index) :
          /\ {"MeanSpeed", "StdSpeed", "Jitter"} \subseteq results.improvement_df.columns
          /\ Lt(results.summary_df.cell[c]["StdSpeed"], results.summary_df.cell[baseline]["StdSpeed"])
          /\ Gt(results.improvement_df.cell[c]["StdSpeed"], Zero)
          /\ Gt(results.improvement_df.cell[c]["Jitter"], Zero)
    /\ \E c \in Range(results.improvement_df.index) :
          /\ Gt(results.summary_df.cell[c]["MeanSpeed"], results.summary_df.cell[baseline]["MeanSpeed"])
          /\ Gt(results.improvement_df.cell[c]["MeanSpeed"], Zero)

\* C9 (as stated): in the ranked result every entry's score is greater than or
\* equal to the next entry's score, also when a condition has an undefined
\* improvement cell in a surviving parameter.
C9_ScoresDescend ==
    Returned =>
        \A k \in 1..(Len(RankedScores) - 1) : Ge(RankedScores[k], RankedScores[k + 1])

\* C9 (amended): in the ranked result the entries with a defined score come
\* first, in descending order of score; the entries whose score is undefined
\* come after all of them.
C9_DefinedScoresDescendUndefinedLast ==
    Returned =>
        \A k \in 1..(Len(RankedScores) - 1) :
            IsNaN(RankedScores[k + 1]) \/ Ge(RankedScores[k], RankedScores[k + 1])

C9_Witness ==
    /\ pc = "returned"
    /\ Len(RankedScores) = 3
    /\ Gt(RankedScores[1], RankedScores[2])
    /\ IsNaN(RankedScores[3])
    /\ Position(results.summary_df.index, RankedNames[3])
          < Position(results.summary_df.index, RankedNames[1])

\* C10: when every parameter's responsiveness is at or below 1e-9 or undefined,
\* the result is partially populated: summary_df and improvement_df are
\* populated (Scenario A: improvement +3) while responsiveness_scores,
\* final_dynamic_weights, dynamic_scores and the ranking are empty; and in every
\* returned result a stage is populated only if all earlier stages are.
Populated ==
    <<~IsEmpty(results.summary_df),
      ~IsEmpty(results.improvement_df),
      DOMAIN results.responsiveness_scores # {},
      DOMAIN results.final_dynamic_weights # {},
      results.dynamic_scores.index # <<>>,
      RankedNames # <<>> /\ RankedScores # <<>>>>

NothingResponsive ==
    \A p \in results.improvement_df.columns :
        LET s == Std(ColumnValues(results.improvement_df.index, results.improvement_df.cell, p))
        IN  IsNaN(s) \/ Le(s, Epsilon)

C10_PartialResultWhenNothingResponsive ==
    Returned =>
        /\ (~IsEmpty(results.improvement_df) /\ NothingResponsive) =>
              Populated = <<TRUE, TRUE, FALSE, FALSE, FALSE, FALSE>>
        /\ (data_by_condition = ScenarioA /\ hand = "Right") =>
              /\ results.improvement_df.index = <<"Med Off - DBS On - Pr1">>
              /\ results.improvement_df.cell["Med Off - DBS On - Pr1"]["MeanSpeed"] = Rat(3, 1)
              /\ Populated = <<TRUE, TRUE, FALSE, FALSE, FALSE, FALSE>>
        /\ \A k \in 2..6 : Populated[k] => Populated[k - 1]

C10_Witness ==
    /\ pc = "returned"
    /\ data_by_condition = ScenarioA
    /\ hand = "Right"
    /\ results.summary_df.cell[Baseline0]["MeanSpeed"] = Rat(8, 1)
    /\ results.summary_df.cell["Med Off - DBS On - Pr1"]["MeanSpeed"] = Rat(11, 1)


\* the trial list of the requested hand under condition c, <<>> when there is none
TrialsOf(c) ==
    LET hand_dict == data_by_condition.val[c]
    IN  IF hand_dict.kind = "dict" /\ hand \in Range(hand_dict.keys)
           /\ hand_dict.val[hand].kind = "list"
        THEN hand_dict.val[hand].elems
        ELSE <<>>

\* the positions of the trials of c that hold a numeric value for parameter p
NumericTrials(c, p) ==
    {k \in 1..Len(TrialsOf(c)) :
        LET df == TrialsOf(c)[k]
        IN  /\ df.kind = "frame"
            /\ df.has_columns
            /\ p \in DOMAIN df.values
            /\ df.values[p].numeric}

\* the parameters named by the trial tables of c
ParametersOf(c) ==
    UNION {IF TrialsOf(c)[k].kind = "frame" THEN DOMAIN TrialsOf(c)[k].values ELSE {} :
              k \in 1..Len(TrialsOf(c))}

RECURSIVE ValueSum(_, _, _)
ValueSum(c, p, ks) ==
    IF ks = {} THEN 0
    ELSE LET k == CHOOSE x \in ks : TRUE
         IN  TrialsOf(c)[k].values[p].v + ValueSum(c, p, ks \ {k})

\* the mean over the trials that hold a numeric value, undefined when none does
MeanOfNumericTrials(c, p) ==
    IF NumericTrials(c, p) = {} THEN NaN
    ELSE Rat(ValueSum(c, p, NumericTrials(c, p)), Cardinality(NumericTrials(c, p)))

\* aggregate_task_data_by_hand has returned the summary of the current call
Aggregated ==
    \/ pc \in {"check_summary", "responsiveness", "check_responsive", "score",
               "rank", "return", "returned"}
    \/ pc = "raised" /\ raised = "KeyError"

\* C11: every cell of the summary is the mean over only those trials of the
\* requested hand that hold a numeric value for the parameter (a non-numeric
\* value counts as missing), and is undefined, not zero, when no trial holds
\* one; a condition is a row of the summary exactly when some trial of the
\* requested hand holds a numeric value for some parameter, so a condition
\* without a trial for the hand or with an entirely undefined row is absent.
C11_CellIsMeanOverNumericTrials ==
    (Aggregated /\ data_by_condition.kind = "dict") =>
        LET s == results.summary_df
        IN  /\ Range(s.index) =
                  {c \in Range(data_by_condition.keys) :
                      \E p \in ParametersOf(c) : NumericTrials(c, p) # {}}
            /\ \A c \in Range(s.index) : \A p \in s.columns :
                  s.cell[c][p] = MeanOfNumericTrials(c, p)

\* a summary cell that is the mean of the one trial holding a number while
\* another trial of the condition holds text for the parameter, and a cell
\* that is undefined in a row that is kept
C11_Witness ==
    /\ pc = "check_summary"
    /\ \E c \in Range(results.summary_df.index) :
          /\ Len(TrialsOf(c)) = 2
          /\ \E k \in 1..2 : /\ TrialsOf(c)[k].kind = "frame"
                               /\ TrialsOf(c)[k].has_columns
                               /\ "MeanSpeed" \in DOMAIN TrialsOf(c)[k].values
                               /\ ~TrialsOf(c)[k].values["MeanSpeed"].numeric
          /\ Cardinality(NumericTrials(c, "MeanSpeed")) = 1
          /\ results.summary_df.cell[c]["MeanSpeed"] = Rat(3, 1)

\* the trial list of the requested hand under condition c put in the order q
Reordered(c, q) ==
    LET hand_dict == data_by_condition.val[c]
        trials == TrialsOf(c)
    IN  [data_by_condition EXCEPT !.val[c] =
            [hand_dict EXCEPT !.val[hand] = List([k \in 1..Len(trials) |-> trials[q[k]]])]]

\* C12: for every condition and every reordering of its list of trial tables
\* for the requested hand, aggregate_task_data_by_hand on the reordered data
\* returns the summary it has just returned on the original data: same
\* conditions, same parameters, same values.
C12_AggregationIgnoresTrialOrder ==
    (pc = "check_summary" /\ data_by_condition.kind = "dict") =>
        \A c \in Range(data_by_condition.keys) :
            \A q \in Orders(Len(TrialsOf(c))) :
                aggregate_task_data_by_hand(Reordered(c, q), hand) = results.summary_df

\* a condition whose two trials hold different numbers for the same parameter,
\* so that reordering them changes what each position of the list supplies
C12_Witness ==
    /\ pc = "check_summary"
    /\ \E c \in Range(results.summary_df.index) :
          /\ Len(TrialsOf(c)) = 2
          /\ NumericTrials(c, "MeanSpeed") = {1, 2}
          /\ TrialsOf(c)[1].values["MeanSpeed"].v # TrialsOf(c)[2].values["MeanSpeed"].v
          /\ results.summary_df.cell[c]["MeanSpeed"] = Rat(3, 2)

\* the call has ended: it returned to the caller or an exception left it
CallEnded == pc \in {"returned", "raised"}

\* C13: no step of perform_full_hand_analysis, on the success path or on an
\* abort path, changes the nested mapping condition -> hand -> trial list, any
\* trial table in it, or parameter_directions; so when the call has ended, a
\* second call with the arguments as the first call left them ends as the
\* first did, with the same results (where scores tie, with one of the orders
\* the sort may give them).
C13_ArgumentsAreNotMutated ==
    /\ [][data_by_condition' = data_by_condition /\ directions' = directions]_vars
    /\ [](CallEnded =>
            [results |-> results, raised |-> raised]
                \in perform_full_hand_analysis(data_by_condition, hand, baseline,
                                               shrinkage_lambda))

\* a completed call whose aggregator coerced a text value of a trial table
C13_Witness ==
    /\ pc = "returned"
    /\ RankedNames # <<>>
    /\ \E c \in Range(results.summary_df.index) :
          \E k \in 1..Len(TrialsOf(c)) :
              /\ IsUsableTrial(TrialsOf(c)[k])
              /\ \E a \in DOMAIN TrialsOf(c)[k].values : ~TrialsOf(c)[k].values[a].numeric
    /\ directions = parameter_directions

\* the call is the one of Scenario B: baseline StdSpeed 5, A 3, B 6, right hand
IsScenarioB == data_by_condition = ScenarioB /\ hand = "Right" /\ baseline = Baseline0

\* C14: on Scenario B (StdSpeed the only parameter, lower is better, baseline 5,
\* A 3, B 6) and any shrinkage_lambda in [0, 1], the call returns without an
\* exception with improvements +2 for A and -1 for B, StdSpeed as the single
\* surviving parameter with weight 1, ranked_names = [A, B] and
\* ranked_scores = [2, -1].
C14_ScenarioB ==
    (IsScenarioB /\ CallEnded) =>
        /\ pc = "returned"
        /\ raised = ""
        /\ results.improvement_df.index = <<"A", "B">>
        /\ results.improvement_df.columns = {"StdSpeed"}
        /\ results.improvement_df.cell["A"]["StdSpeed"] = Rat(2, 1)
        /\ results.improvement_df.cell["B"]["StdSpeed"] = Rat(-1, 1)
        /\ DOMAIN results.responsiveness_scores = {"StdSpeed"}
        /\ results.final_dynamic_weights = [p \in {"StdSpeed"} |-> One]
        /\ RankedNames = <<"A", "B">>
        /\ RankedScores = <<Rat(2, 1), Rat(-1, 1)>>

\* Scenario B has returned, for a shrinkage_lambda strictly between 0 and 1
C14_Witness ==
    /\ IsScenarioB
    /\ pc = "returned"
    /\ shrinkage_lambda = Rat(1, 2)
    /\ Len(RankedNames) = 2

\* the ranking stage was reached and has run
Ranked == Returned /\ results.dynamic_scores.index # <<>>

\* the condition has an undefined improvement in some surviving parameter
UndefinedInSurvivor(c) ==
    \E p \in DOMAIN results.final_dynamic_weights : IsNaN(results.improvement_df.cell[c][p])

\* C15: when the ranking stage has run, ranked_names holds every row of the
\* improvement matrix (every non-baseline condition of the summary) exactly
\* once and never the baseline; ranked_scores has the same length and
\* ranked_scores[i] is the score of ranked_names[i]; a condition with an
\* undefined improvement in a surviving parameter is kept, has an undefined
\* score, and stands after every condition with a defined score, and no other
\* condition has an undefined score.
C15_RankingIsPermutationOfRows ==
    Ranked =>
        LET rows == results.improvement_df.index
            n == Len(RankedNames)
        IN  /\ n = Len(rows)
            /\ Len(RankedScores) = n
            /\ Range(RankedNames) = Range(rows)
            /\ Range(rows) = Range(results.summary_df.index) \ {baseline}
            /\ \A i, j \in 1..n : i # j => RankedNames[i] # RankedNames[j]
            /\ baseline \notin Range(RankedNames)
            /\ \A i \in 1..n : RankedScores[i] = results.dynamic_scores.val[RankedNames[i]]
            /\ \A i \in 1..n : IsNaN(RankedScores[i]) <=> UndefinedInSurvivor(RankedNames[i])
            /\ \A i, j \in 1..n :
                  (IsNaN(RankedScores[i]) /\ ~IsNaN(RankedScores[j])) => j < i

\* a ranking of three conditions of which exactly one has an undefined
\* improvement in a surviving parameter and stands last, although it comes
\* first among them in the summary
C15_Witness ==
    /\ pc = "returned"
    /\ Len(RankedNames) = 3
    /\ UndefinedInSurvivor(RankedNames[3])
    /\ ~UndefinedInSurvivor(RankedNames[1])
    /\ ~UndefinedInSurvivor(RankedNames[2])
    /\ results.improvement_df.index[1] = RankedNames[3]
=============================================================================
